---------------------------- MODULE Spec2Model ----------------------------
(***************************************************************************)
(* Model of the OpenAPI custom-extension validator                         *)
(* (src/src/validator/validator.ts, class OpenAPIValidator).               *)
(*                                                                         *)
(* A parsed document is a tagged value (null, string, number, boolean,     *)
(* array, object), with the JavaScript semantics the validator relies on   *)
(* (truthiness, hasOwnProperty, property reads, the `in` operator,         *)
(* forEach, typeof).  A call of validateDocument either returns a          *)
(* ValidationResult or raises; both outcomes are recorded in `result`.     *)
(* `history` lists the operations called so far and `configured` is the    *)
(* rule list last handed to the constructor or to updateRequiredExtensions.*)
(*                                                                         *)
(* The editor glue (src/src/extension.ts, the diagnostics provider and     *)
(* src/src/completionProvider.ts) adds the completion provider's own rule  *)
(* list, the last completion request and its answer, the open text         *)
(* documents, the diagnostics published for each, and the configured       *)
(* setting cOAS.customExtensions.                                          *)
(***************************************************************************)
EXTENDS Integers, Sequences, FiniteSets, TLC

VARIABLES customExtensions, content, result, history, configured,
          completionExtensions, position, completionItems,
          textDocuments, diagnostics, configuration,
          extensionPath, foundLocation

\* the state of the editor glue
hostVars ==
  <<completionExtensions, position, completionItems, textDocuments, diagnostics, configuration>>

\* one lookup of the location scan: the path asked for and the answer
locateVars == <<extensionPath, foundLocation>>

vars ==
  <<customExtensions, content, result, history, configured,
    completionExtensions, position, completionItems, textDocuments,
    diagnostics, configuration, extensionPath, foundLocation>>

-----------------------------------------------------------------------------
(* Bounds *)

MaxRules == 2

MaxEntries == 2
\* number of operations called on one validator
MaxOps == 3

-----------------------------------------------------------------------------
(* Parsed values (what YAML.parse returns) and their JavaScript semantics *)

Undefined == [t |-> "undefined"]

Null == [t |-> "null"]

Str(s) == [t |-> "string", v |-> s]

Num(s) == [t |-> "number", v |-> s]

Bool(s) == [t |-> "boolean", v |-> s]

Arr(xs) == [t |-> "array", items |-> xs]

\* an object is an ordered list of entries [k |-> key, val |-> value]
Obj(es) == [t |-> "object", ents |-> es]

E(k, x) == [k |-> k, val |-> x]

\* JavaScript truthiness: `if (x)`, `x && ...`, `!x`
Truthy(x) ==
  CASE x.t = "undefined" -> FALSE
    [] x.t = "null" -> FALSE
    [] x.t = "string" -> x.v # ""
    [] x.t = "number" -> x.v # "0"
    [] x.t = "boolean" -> x.v = "true"
    [] OTHER -> TRUE

\* reading a property of null or undefined raises a TypeError
CanDeref(x) == x.t \notin {"null", "undefined"}

IsArray(x) == x.t = "array"

\* typeof x
TypeOf(x) ==
  CASE x.t \in {"null", "array", "object"} -> "object"
    [] OTHER -> x.t

\* the own string keys of a value, in Object.keys order; the keys of the
\* model are never array indices or "length", so only objects have any
Keys(x) == IF x.t = "object" THEN [i \in 1..Len(x.ents) |-> x.ents[i].k] ELSE <<>>

KeySet(x) == {Keys(x)[i] : i \in 1..Len(Keys(x))}

\* x.hasOwnProperty(k), for x that can be dereferenced
HasOwn(x, k) == k \in KeySet(x)

\* x[k], for x that can be dereferenced (the first entry of a key wins:
\* the model never builds duplicate keys)
Get(x, k) ==
  IF k \in KeySet(x)
    THEN x.ents[CHOOSE i \in 1..Len(x.ents) : x.ents[i].k = k].val
    ELSE Undefined

\* `k in x` raises a TypeError unless x is an object (arrays included)
CanIn(x) == x.t \in {"object", "array"}

\* x.forEach is a function only on arrays
CanForEach(x) == x.t = "array"

-----------------------------------------------------------------------------
(* Extension rules (CustomExtension) *)

Locations == {"root", "servers", "tags", "parameters", "requestBody"}

DeclaredTypes == {"string", "number", "boolean", "object", "array"}

\* a rule without nested declarations
Rule(in, name, type, required) ==
  [in |-> in, name |-> name, type |-> type, required |-> required,
   properties |-> <<>>]

\* one declaration of the `properties` of an object-typed rule
NestedProperty(name, type, required) ==
  [name |-> name, type |-> type, required |-> required]

\* an object-typed rule with nested `properties`
ObjectRule(in, name, required, properties) ==
  [Rule(in, name, "object", required) EXCEPT !.properties = properties]

-----------------------------------------------------------------------------
(* Outcomes of a computation that may raise *)

Ok(errs) == [threw |-> FALSE, errors |-> errs]

Threw == [threw |-> TRUE, errors |-> <<>>]

\* run a, then b, as two statements in sequence
Then(a, b) == IF a.threw \/ b.threw THEN Threw ELSE Ok(a.errors \o b.errors)

-----------------------------------------------------------------------------
(* Text.  A line of the text is kept by what the location scan reads of it:
   ind  = getIndentation(line), the number of leading blanks (0 on a blank
          line);
   dash = the trimmed line matches /^- /;
   key  = the key matched by /^(?:-\s+)?([A-Za-z0-9_\-]+)\s*:/ on the
          trimmed line, "" when the line does not match. *)

Line(ind, dash, key) ==
  [ind |-> ind, dash |-> dash, key |-> key, void |-> FALSE, decl |-> FALSE]

\* A line is further kept by what the other readers of the text see of it:
\* void = the trimmed line is empty or starts with "#" (getYamlPath skips it);
\* decl = the line matches /^\s*openapi\s*:\s*['"]*3\./ or
\*        /^\s*swagger\s*:\s*['"]*2\./ (isOpenAPIFile).

\* an empty line: getIndentation finds no \S and returns 0
BlankLine == [Line(0, FALSE, "") EXCEPT !.void = TRUE]

\* a line "# ..." at indentation ind
CommentLine(ind) == [Line(ind, FALSE, "") EXCEPT !.void = TRUE]

\* String(arrayIndex)
IndexStr(i) ==
  IF i < 0 THEN "-1" ELSE <<"0", "1", "2", "3", "4", "5", "6", "7", "8", "9">>[i + 1]

\* s.split('/').filter(part => part.length > 0), for the strings of the model
SplitSlash(s) ==
  CASE s = "" -> <<>>
    [] s = "/a" -> <<"a">>
    [] s = "/b" -> <<"b">>
    [] s = "/pets/{id}" -> <<"pets", "{id}">>
    [] OTHER -> <<s>>

RECURSIVE SplitPath(_)
\* the parts of the path string built by joining the pieces with "/"
SplitPath(pieces) ==
  IF pieces = <<>> THEN <<>>
  ELSE SplitSlash(Head(pieces)) \o SplitPath(Tail(pieces))

\* `null`, and the `line: location?.line` of a finding without location
NoLocation == [line |-> 0, column |-> 0]

RECURSIVE ScanLines(_, _, _, _, _)
\* the loop of findYamlLocation from line i on
ScanLines(lines, pathParts, i, depth, arrayIndex) ==
  IF i > Len(lines) THEN NoLocation
  ELSE
    LET line == lines[i]
        ai == IF line.dash THEN arrayIndex + 1 ELSE arrayIndex
        hitIndex == /\ line.dash
                    /\ depth < Len(pathParts)
                    /\ IndexStr(ai) = pathParts[depth + 1]
        d1 == IF hitIndex THEN depth + 1 ELSE depth
    IN IF hitIndex /\ d1 = Len(pathParts)
         THEN [line |-> i, column |-> line.ind + 3]
         ELSE
           LET hitKey == /\ line.key # ""
                         /\ d1 < Len(pathParts)
                         /\ line.key = pathParts[d1 + 1]
               d2 == IF hitKey THEN d1 + 1 ELSE d1
           IN IF hitKey /\ d2 = Len(pathParts)
                THEN [line |-> i, column |-> line.ind + 1]
                ELSE ScanLines(lines, pathParts, i + 1, d2,
                               IF line.ind = 0 THEN -1 ELSE ai)

findYamlLocation(lines, pieces) == ScanLines(lines, SplitPath(pieces), 1, 0, -1)

findExtensionLocation(lines, pieces) == findYamlLocation(lines, pieces)

-----------------------------------------------------------------------------
(* Findings (ValidationError) *)

\* where a finding is, as the message words it
Where(sect, pathKey, method, index) ==
  [sect |-> sect, pathKey |-> pathKey, method |-> method, index |-> index]

\* the text of a message, kept by its varying parts; `at` is the instance
\* path a schema message ends with (the root, shown as "/", is <<>>)
Message(kind, subject, where, expected, got) ==
  [kind |-> kind, subject |-> subject, where |-> where,
   expected |-> expected, got |-> got, at |-> <<>>]

Finding(message, extensionName, loc) ==
  [message |-> message, extensionName |-> extensionName, severity |-> "error",
   line |-> loc.line, column |-> loc.column]

\* `Missing required custom extension: ${name}[ in ${where}]`
Missing(extension, where, loc) ==
  Finding(Message("missing", extension.name, where, "", ""), extension.name, loc)

\* `Extension ${name}[ in ${where}] should be of type ${type}, got ${typeof value}`
Mismatch(extension, where, value, loc) ==
  Finding(Message("mismatch", extension.name, where, extension.type, TypeOf(value)),
          extension.name, loc)

validateExtensionType(value, expectedType) ==
  CASE expectedType = "string" -> TypeOf(value) = "string"
    [] expectedType = "number" -> TypeOf(value) = "number"
    [] expectedType = "boolean" -> TypeOf(value) = "boolean"
    [] expectedType = "object" ->
         TypeOf(value) = "object" /\ value.t # "null" /\ ~IsArray(value)
    [] expectedType = "array" -> IsArray(value)
    [] OTHER -> FALSE

\* hasExtension(document, name, section); section = Undefined when omitted.
\* The result is [threw, has].
hasExtension(document, extensionName, section) ==
  IF Truthy(section)
    THEN [threw |-> FALSE, has |-> HasOwn(section, extensionName)]
    ELSE IF CanDeref(document)
           THEN [threw |-> FALSE, has |-> HasOwn(document, extensionName)]
           ELSE [threw |-> TRUE, has |-> FALSE]

\* The body shared by the five validate<Section>Extension methods: the
\* presence test, the location lookup, and the missing or mismatch finding
\* for one targeted entry.  `holder` is the value the field is read from.
checkEntry(document, lines, extension, section, holder, where, pieces) ==
  LET h == hasExtension(document, extension.name, section)
      location == findExtensionLocation(lines, pieces)
  IN IF h.threw THEN Threw
     ELSE IF ~h.has THEN Ok(<<Missing(extension, where, location)>>)
     ELSE IF ~CanDeref(holder) THEN Threw
     ELSE LET value == Get(holder, extension.name)
          IN IF ~validateExtensionType(value, extension.type)
               THEN Ok(<<Mismatch(extension, where, value, location)>>)
               ELSE Ok(<<>>)

\* the (key, value) pairs Object.keys(x) walks: the entries of an object, the
\* indexed items of an array, the characters of a string (a non-empty string
\* of the model has one character)
PropEntries(x) ==
  CASE x.t = "object" -> x.ents
    [] x.t = "array" -> [i \in 1..Len(x.items) |-> E(IndexStr(i - 1), x.items[i])]
    [] x.t = "string" /\ x.v # "" -> <<E("0", x)>>
    [] OTHER -> <<>>

\* x[k] for any x that can be dereferenced
Prop(x, k) ==
  LET es == PropEntries(x)
      S == {i \in 1..Len(es) : es[i].k = k}
  IN IF S = {} THEN Undefined ELSE es[CHOOSE i \in S : TRUE].val

RECURSIVE checkEntries(_, _, _, _, _, _, _, _, _)
\* items.forEach((entry, index) => ...) from index i - 1 on, for the arrays
\* servers, tags and parameters
checkEntries(document, lines, extension, items, i, sect, pathKey, method, prefix) ==
  IF i > Len(items) THEN Ok(<<>>)
  ELSE Then(checkEntry(document, lines, extension, items[i], items[i],
                       Where(sect, pathKey, method, i - 1),
                       prefix \o <<IndexStr(i - 1), extension.name>>),
            checkEntries(document, lines, extension, items, i + 1,
                         sect, pathKey, method, prefix))

validateRootExtension(document, lines, extension) ==
  checkEntry(document, lines, extension, Undefined, document,
             Where("root", "", "", -1), <<extension.name>>)

validateServersExtension(document, lines, extension) ==
  IF ~CanDeref(document) THEN Threw
  ELSE LET servers == Prop(document, "servers")
       IN IF ~Truthy(servers) \/ ~IsArray(servers) THEN Ok(<<>>)
          ELSE checkEntries(document, lines, extension, servers.items, 1,
                            "servers", "", "", <<"servers">>)

validateTagsExtension(document, lines, extension) ==
  IF ~CanDeref(document) THEN Threw
  ELSE LET tags == Prop(document, "tags")
       IN IF ~Truthy(tags) \/ ~IsArray(tags) THEN Ok(<<>>)
          ELSE checkEntries(document, lines, extension, tags.items, 1,
                            "tags", "", "", <<"tags">>)

\* const operations = ['get', 'post', 'put', 'delete', 'options', 'head', 'patch', 'trace']
ParameterOperations ==
  <<"get", "post", "put", "delete", "options", "head", "patch", "trace">>

\* const operations = ['post', 'put', 'patch']
RequestBodyOperations == <<"post", "put", "patch">>

\* owner.parameters.forEach(...), guarded by the truthiness of owner.parameters
checkParameters(document, lines, extension, owner, pathKey, method, prefix) ==
  LET parameters == Prop(owner, "parameters")
  IN IF ~Truthy(parameters) THEN Ok(<<>>)
     ELSE IF ~CanForEach(parameters) THEN Threw
     ELSE checkEntries(document, lines, extension, parameters.items, 1,
                       "parameters", pathKey, method, prefix \o <<"parameters">>)

\* if (pathItem && 'parameters' in pathItem && pathItem.parameters) { ... }
checkPathLevelParameters(document, lines, extension, pathKey, pathItem) ==
  IF ~Truthy(pathItem) THEN Ok(<<>>)
  ELSE IF ~CanIn(pathItem) THEN Threw
  ELSE IF Prop(pathItem, "parameters").t = "undefined" THEN Ok(<<>>)
  ELSE checkParameters(document, lines, extension, pathItem, pathKey, "",
                       <<"paths", pathKey>>)

RECURSIVE checkOperationParameters(_, _, _, _, _, _)
\* operations.forEach((method) => ...) of validateParametersExtension, from
\* the j-th method on
checkOperationParameters(document, lines, extension, pathKey, pathItem, j) ==
  IF j > Len(ParameterOperations) THEN Ok(<<>>)
  ELSE IF ~CanDeref(pathItem) THEN Threw
  ELSE
    LET method == ParameterOperations[j]
        operation == Prop(pathItem, method)
        here == IF ~Truthy(operation) THEN Ok(<<>>)
                ELSE checkParameters(document, lines, extension, operation,
                                     pathKey, method, <<"paths", pathKey, method>>)
    IN Then(here, checkOperationParameters(document, lines, extension,
                                           pathKey, pathItem, j + 1))

RECURSIVE checkPathsParameters(_, _, _, _, _)
\* Object.keys(document.paths).forEach((pathKey) => ...) of
\* validateParametersExtension, from the p-th key on
checkPathsParameters(document, lines, extension, paths, p) ==
  IF p > Len(paths) THEN Ok(<<>>)
  ELSE
    LET pathKey == paths[p].k
        pathItem == paths[p].val
    IN Then(Then(checkPathLevelParameters(document, lines, extension, pathKey, pathItem),
                 checkOperationParameters(document, lines, extension, pathKey, pathItem, 1)),
            checkPathsParameters(document, lines, extension, paths, p + 1))

validateParametersExtension(document, lines, extension) ==
  IF ~CanDeref(document) THEN Threw
  ELSE LET paths == Prop(document, "paths")
       IN IF ~Truthy(paths) THEN Ok(<<>>)
          ELSE checkPathsParameters(document, lines, extension, PropEntries(paths), 1)

RECURSIVE checkOperationRequestBody(_, _, _, _, _, _)
\* operations.forEach((method) => ...) of validateRequestBodyExtension
checkOperationRequestBody(document, lines, extension, pathKey, pathItem, j) ==
  IF j > Len(RequestBodyOperations) THEN Ok(<<>>)
  ELSE IF ~CanDeref(pathItem) THEN Threw
  ELSE
    LET method == RequestBodyOperations[j]
        operation == Prop(pathItem, method)
        requestBody == IF Truthy(operation) THEN Prop(operation, "requestBody")
                       ELSE Undefined
        here == IF ~Truthy(requestBody) THEN Ok(<<>>)
                ELSE checkEntry(document, lines, extension, requestBody, requestBody,
                                Where("requestBody", pathKey, method, -1),
                                <<"paths", pathKey, method, "requestBody",
                                  extension.name>>)
    IN Then(here, checkOperationRequestBody(document, lines, extension,
                                            pathKey, pathItem, j + 1))

RECURSIVE checkPathsRequestBody(_, _, _, _, _)
\* Object.keys(document.paths).forEach((pathKey) => ...) of
\* validateRequestBodyExtension
checkPathsRequestBody(document, lines, extension, paths, p) ==
  IF p > Len(paths) THEN Ok(<<>>)
  ELSE Then(checkOperationRequestBody(document, lines, extension,
                                      paths[p].k, paths[p].val, 1),
            checkPathsRequestBody(document, lines, extension, paths, p + 1))

validateRequestBodyExtension(document, lines, extension) ==
  IF ~CanDeref(document) THEN Threw
  ELSE LET paths == Prop(document, "paths")
       IN IF ~Truthy(paths) THEN Ok(<<>>)
          ELSE checkPathsRequestBody(document, lines, extension, PropEntries(paths), 1)

validateExtensionInSection(document, lines, extension) ==
  CASE extension.in = "root" -> validateRootExtension(document, lines, extension)
    [] extension.in = "servers" -> validateServersExtension(document, lines, extension)
    [] extension.in = "tags" -> validateTagsExtension(document, lines, extension)
    [] extension.in = "parameters" -> validateParametersExtension(document, lines, extension)
    [] extension.in = "requestBody" -> validateRequestBodyExtension(document, lines, extension)
    [] OTHER -> Ok(<<>>)

-----------------------------------------------------------------------------
(* The schema check: ajv, compiled with allErrors, over the OpenAPI schema.
   The schema file is not part of the sources; the violations below are the
   structural ones the standard shape implies: the document is an object,
   its root keys are standard keys or x- extensions, servers and tags and
   parameters are arrays of objects, paths and path items and operations are
   objects. *)

StandardRootKeys == {"openapi", "info", "servers", "tags", "paths", "components"}

ExtensionNames == {"x-a", "x-b"}

\* one ajv error: instancePath (as the pieces joined by "/") and
\* params.additionalProperty ("" when the error has none)
Violation(instancePath, additionalProperty) ==
  [instancePath |-> instancePath, additionalProperty |-> additionalProperty]

\* JSON-pointer escaping of a key ("/" becomes "~1")
EscapePointer(k) ==
  CASE k = "/a" -> "~1a"
    [] k = "/b" -> "~1b"
    [] k = "/pets/{id}" -> "~1pets~1{id}"
    [] OTHER -> k

RECURSIVE SchemaItems(_, _, _)
SchemaItems(items, i, at) ==
  IF i > Len(items) THEN <<>>
  ELSE (IF items[i].t = "object" THEN <<>>
        ELSE <<Violation(at \o <<IndexStr(i - 1)>>, "")>>)
       \o SchemaItems(items, i + 1, at)

\* x must be an array of objects
SchemaObjectList(x, at) ==
  IF x.t = "undefined" THEN <<>>
  ELSE IF x.t # "array" THEN <<Violation(at, "")>>
  ELSE SchemaItems(x.items, 1, at)

RECURSIVE SchemaOperations(_, _, _)
SchemaOperations(pathItem, j, at) ==
  IF j > Len(ParameterOperations) THEN <<>>
  ELSE
    LET method == ParameterOperations[j]
        operation == Prop(pathItem, method)
        here == IF operation.t = "undefined" THEN <<>>
                ELSE IF operation.t # "object" THEN <<Violation(at \o <<method>>, "")>>
                ELSE SchemaObjectList(Prop(operation, "parameters"),
                                      at \o <<method, "parameters">>)
                     \o (IF Prop(operation, "requestBody").t \in {"undefined", "object"}
                           THEN <<>>
                           ELSE <<Violation(at \o <<method, "requestBody">>, "")>>)
    IN here \o SchemaOperations(pathItem, j + 1, at)

RECURSIVE SchemaPathItems(_, _)
SchemaPathItems(paths, p) ==
  IF p > Len(paths) THEN <<>>
  ELSE
    LET at == <<"paths", EscapePointer(paths[p].k)>>
        pathItem == paths[p].val
    IN (IF pathItem.t # "object" THEN <<Violation(at, "")>>
        ELSE SchemaObjectList(Prop(pathItem, "parameters"), at \o <<"parameters">>)
             \o SchemaOperations(pathItem, 1, at))
       \o SchemaPathItems(paths, p + 1)

RECURSIVE SchemaRootKeys(_, _)
SchemaRootKeys(ents, i) ==
  IF i > Len(ents) THEN <<>>
  ELSE (IF ents[i].k \in StandardRootKeys \cup ExtensionNames THEN <<>>
        ELSE <<Violation(<<>>, ents[i].k)>>)
       \o SchemaRootKeys(ents, i + 1)

\* validate(document); validate.errors
SchemaCheck(document) ==
  IF document.t # "object" THEN <<Violation(<<>>, "")>>
  ELSE SchemaRootKeys(document.ents, 1)
       \o SchemaObjectList(Prop(document, "servers"), <<"servers">>)
       \o SchemaObjectList(Prop(document, "tags"), <<"tags">>)
       \o (LET paths == Prop(document, "paths")
           IN IF paths.t = "undefined" THEN <<>>
              ELSE IF paths.t # "object" THEN <<Violation(<<"paths">>, "")>>
              ELSE SchemaPathItems(paths.ents, 1))

-----------------------------------------------------------------------------
(* validateDocument *)

\* YAML.parse(content): the text either is rejected or yields content.doc
Parse(c) == [ok |-> c.parses, document |-> c.doc]

ParseErrorFinding ==
  Finding(Message("parse", "", Where("", "", "", -1), "", ""), "parse-error", NoLocation)

\* `Schema validation error: Property "${property}" is not allowed at
\*  ${err.instancePath || '/'}`
SchemaFinding(lines, err) ==
  Finding([Message("schema",
                   IF err.additionalProperty = "" THEN "undefined"
                   ELSE err.additionalProperty,
                   Where("", "", "", -1), "", "")
             EXCEPT !.at = err.instancePath],
          "schema-validation",
          findExtensionLocation(lines, err.instancePath))

\* for (const err of validate.errors) { ... errors.push(...) }
SchemaFindings(lines, errs) == [i \in 1..Len(errs) |-> SchemaFinding(lines, errs[i])]

RECURSIVE checkExtensions(_, _, _, _)
\* for (const extension of this.customExtensions) { ... }, from the i-th on
checkExtensions(document, lines, extensions, i) ==
  IF i > Len(extensions) THEN Ok(<<>>)
  ELSE IF extensions[i].required # "false"
    THEN Then(validateExtensionInSection(document, lines, extensions[i]),
              checkExtensions(document, lines, extensions, i + 1))
    ELSE checkExtensions(document, lines, extensions, i + 1)

\* what a call left behind: a returned ValidationResult, or an exception
Returned(isValid, errors) ==
  [status |-> "returned", isValid |-> isValid, errors |-> errors, warnings |-> <<>>]

Raised == [status |-> "raised", isValid |-> FALSE, errors |-> <<>>, warnings |-> <<>>]

NoResult == [status |-> "none", isValid |-> FALSE, errors |-> <<>>, warnings |-> <<>>]

\* validateDocument going on to the schema check after a parse failure
validateDocumentPastParseError(extensions, c) ==
  LET parsed == Parse(c)
      schemaErrors == SchemaFindings(c.lines, SchemaCheck(parsed.document))
      extensionErrors == IF parsed.ok
                           THEN checkExtensions(parsed.document, c.lines, extensions, 1)
                           ELSE Ok(<<ParseErrorFinding>>)
  IN IF extensionErrors.threw THEN Raised
     ELSE LET errors == schemaErrors \o extensionErrors.errors
          IN Returned(Len(errors) = 0, errors)

\* validateDocument deriving isValid from the extension findings alone
validateDocumentValidBySections(extensions, c) ==
  LET parsed == Parse(c)
  IN IF ~parsed.ok THEN Returned(FALSE, <<ParseErrorFinding>>)
     ELSE
       LET schemaErrors == SchemaFindings(c.lines, SchemaCheck(parsed.document))
           extensionErrors == checkExtensions(parsed.document, c.lines, extensions, 1)
       IN IF extensionErrors.threw THEN Raised
          ELSE Returned(Len(extensionErrors.errors) = 0,
                        schemaErrors \o extensionErrors.errors)

\* validateDocument putting the extension findings before the schema findings
validateDocumentExtensionsFirst(extensions, c) ==
  LET parsed == Parse(c)
  IN IF ~parsed.ok THEN Returned(FALSE, <<ParseErrorFinding>>)
     ELSE
       LET schemaErrors == SchemaFindings(c.lines, SchemaCheck(parsed.document))
           extensionErrors == checkExtensions(parsed.document, c.lines, extensions, 1)
       IN IF extensionErrors.threw THEN Raised
          ELSE LET errors == extensionErrors.errors \o schemaErrors
               IN Returned(Len(errors) = 0, errors)

validateDocument(extensions, c) ==
  LET parsed == Parse(c)
  IN IF ~parsed.ok THEN Returned(FALSE, <<ParseErrorFinding>>)
     ELSE
       LET schemaErrors == SchemaFindings(c.lines, SchemaCheck(parsed.document))
           extensionErrors == checkExtensions(parsed.document, c.lines, extensions, 1)
       IN IF extensionErrors.threw THEN Raised
          ELSE LET errors == schemaErrors \o extensionErrors.errors
               IN Returned(Len(errors) = 0, errors)

-----------------------------------------------------------------------------
(* The validator of src/src/validator.ts, the module './validator' of the
   diagnostics provider resolves to (the file comes before the directory of
   the same name).  It has no notion of location: every rule is looked for at
   the document root. *)

\* the body of the rule loop for one rule
legacyCheckExtension(document, lines, extension) ==
  IF ~CanDeref(document) THEN Threw
  ELSE
    LET location == findExtensionLocation(lines, <<extension.name>>)
    IN IF ~HasOwn(document, extension.name)
         THEN Ok(<<Missing(extension, Where("root", "", "", -1), location)>>)
         ELSE LET value == Get(document, extension.name)
              IN IF ~validateExtensionType(value, extension.type)
                   THEN Ok(<<Mismatch(extension, Where("root", "", "", -1), value, location)>>)
                   ELSE Ok(<<>>)

RECURSIVE legacyCheckExtensions(_, _, _, _)
\* for (const extension of this.customExtensions) { ... }, from the i-th on
legacyCheckExtensions(document, lines, extensions, i) ==
  IF i > Len(extensions) THEN Ok(<<>>)
  ELSE IF extensions[i].required # "false"
    THEN Then(legacyCheckExtension(document, lines, extensions[i]),
              legacyCheckExtensions(document, lines, extensions, i + 1))
    ELSE legacyCheckExtensions(document, lines, extensions, i + 1)

\* the legacy validateDocument leaving the type of a present field unchecked
legacyValidateDocumentPresenceOnly(extensions, c) ==
  LET parsed == Parse(c)
      Present(f) == f.message.kind = "missing"
  IN IF ~parsed.ok THEN Returned(FALSE, <<ParseErrorFinding>>)
     ELSE
       LET schemaErrors == SchemaFindings(c.lines, SchemaCheck(parsed.document))
           extensionErrors == legacyCheckExtensions(parsed.document, c.lines, extensions, 1)
       IN IF extensionErrors.threw THEN Raised
          ELSE LET errors == schemaErrors \o SelectSeq(extensionErrors.errors, Present)
               IN Returned(Len(errors) = 0, errors)

legacyValidateDocument(extensions, c) ==
  LET parsed == Parse(c)
  IN IF ~parsed.ok THEN Returned(FALSE, <<ParseErrorFinding>>)
     ELSE
       LET schemaErrors == SchemaFindings(c.lines, SchemaCheck(parsed.document))
           extensionErrors == legacyCheckExtensions(parsed.document, c.lines, extensions, 1)
       IN IF extensionErrors.threw THEN Raised
          ELSE LET errors == schemaErrors \o extensionErrors.errors
               IN Returned(Len(errors) = 0, errors)

-----------------------------------------------------------------------------
(* The diagnostics provider (OpenAPIDiagnosticsProvider) *)

\* content.split('\n').slice(0, 10)
FirstLines == 10

isOpenAPIFile(c) ==
  \E i \in 1..Len(c.lines) : i <= FirstLines /\ c.lines[i].decl

\* document.fileName.endsWith('.git')
EndsWithGit(fileName) == fileName = "api.yaml.git"

\* createRange(document, line, column), kept by its start position; a line
\* past the end of the document gives the end of the last line (character -1)
createRange(c, line, column) ==
  IF line = NoLocation.line THEN [line |-> 0, character |-> 0]
  ELSE LET lineIndex == IF line - 1 > 0 THEN line - 1 ELSE 0
           columnIndex == IF (IF column = 0 THEN 1 ELSE column) - 1 > 0
                            THEN (IF column = 0 THEN 1 ELSE column) - 1 ELSE 0
       IN IF lineIndex >= Len(c.lines)
            THEN [line |-> Len(c.lines) - 1, character |-> -1]
            ELSE [line |-> lineIndex, character |-> columnIndex]

\* new vscode.Diagnostic(range, error.message, severity) with source and code
Diagnostic(c, error) ==
  [range |-> createRange(c, error.line, error.column),
   message |-> error.message,
   severity |-> IF error.severity = "error" THEN "Error" ELSE "Warning",
   source |-> "Customized OAS",
   code |-> error.extensionName]

\* the list updateDiagnostics hands to diagnosticCollection.set (the results
\* of the validator never hold warnings)
updateDiagnostics(c, validationResult) ==
  [n \in 1..Len(validationResult.errors) |-> Diagnostic(c, validationResult.errors[n])]

\* the outcome of a provider method: the published diagnostics, and whether
\* the method raised
Published(published) == [threw |-> FALSE, published |-> published]

Aborted(published) == [threw |-> TRUE, published |-> published]

\* OpenAPIDiagnosticsProvider.validateDocument(document)
providerValidateDocument(extensions, published, fileName, c) ==
  IF ~isOpenAPIFile(c) THEN Published(published)
  ELSE IF EndsWithGit(fileName) THEN Published(published)
  ELSE LET validationResult == legacyValidateDocument(extensions, c)
       IN IF validationResult.status = "raised" THEN Aborted(published)
          ELSE Published([published EXCEPT ![fileName] = updateDiagnostics(c, validationResult)])

\* vscode.workspace.textDocuments, as a list of file names
DocumentOrder == <<"api.yaml", "api.yaml.git">>

DocumentNames == {DocumentOrder[i] : i \in 1..Len(DocumentOrder)}

\* a text document that is not open
Closed == [parses |-> FALSE, doc |-> Undefined, lines |-> <<>>]

RECURSIVE revalidate(_, _, _, _)
\* vscode.workspace.textDocuments.forEach(...) from the i-th document on;
\* `documents` holds the open documents by file name
revalidate(extensions, published, documents, i) ==
  IF i > Len(DocumentOrder) THEN Published(published)
  ELSE LET fileName == DocumentOrder[i]
           c == documents[fileName]
           one == IF c # Closed /\ isOpenAPIFile(c)
                    THEN providerValidateDocument(extensions, published, fileName, c)
                    ELSE Published(published)
       IN IF one.threw THEN one
          ELSE revalidate(extensions, one.published, documents, i + 1)

\* OpenAPIDiagnosticsProvider.updateRequiredExtensions(extensions), after
\* the validator took the list
providerUpdateRequiredExtensions(extensions, published, documents) ==
  revalidate(extensions, published, documents, 1)

-----------------------------------------------------------------------------
(* The text of a document: block-style YAML, one key or one sequence item
   per line, nested blocks indented by two, the first key of an object that
   is a sequence item on the item's "- " line.  YAML.parse of this text is
   the document. *)

\* keys the key pattern /[A-Za-z0-9_\-]+/ does not match
NonIdentifierKeys == {"/a", "/b", "/pets/{id}"}

LineKey(k) == IF k \in NonIdentifierKeys THEN "" ELSE k

\* written on the line of its key or of its "- " marker
IsInline(x) ==
  \/ x.t \notin {"object", "array"}
  \/ (x.t = "object" /\ x.ents = <<>>)
  \/ (x.t = "array" /\ x.items = <<>>)

\* the line "key: value" of the entry declares an OpenAPI 3. or Swagger 2.
\* document
Declares(e) ==
  /\ e.val.t = "string"
  /\ \/ e.k = "openapi" /\ e.val.v \in {"3.1.0", "3.0.3"}
     \/ e.k = "swagger" /\ e.val.v = "2.0"

RECURSIVE RenderBlock(_, _)
RECURSIVE RenderEntries(_, _, _, _)
RECURSIVE RenderItems(_, _, _)

\* the entries of an object from the i-th on, keys at indentation ind; when
\* onItem, the first key stands behind the "- " of a sequence item
RenderEntries(ents, i, ind, onItem) ==
  IF i > Len(ents) THEN <<>>
  ELSE
    LET e == ents[i]
        first == IF onItem /\ i = 1
                   THEN Line(ind - 2, TRUE, LineKey(e.k))
                   ELSE [Line(ind, FALSE, LineKey(e.k)) EXCEPT !.decl = Declares(e)]
        below == IF IsInline(e.val) THEN <<>> ELSE RenderBlock(e.val, ind + 2)
    IN <<first>> \o below \o RenderEntries(ents, i + 1, ind, onItem)

\* the items of a sequence from the i-th on, markers at indentation ind
\* (items that are themselves non-empty sequences are not in the model)
RenderItems(items, i, ind) ==
  IF i > Len(items) THEN <<>>
  ELSE (IF IsInline(items[i]) THEN <<Line(ind, TRUE, "")>>
        ELSE RenderEntries(items[i].ents, 1, ind + 2, TRUE))
       \o RenderItems(items, i + 1, ind)

RenderBlock(x, ind) ==
  IF x.t = "object" THEN RenderEntries(x.ents, 1, ind, FALSE)
  ELSE RenderItems(x.items, 1, ind)

\* content.split('\n') of the text of document x
Text(x) ==
  IF x.t = "null" THEN <<BlankLine>>
  ELSE IF IsInline(x) THEN <<Line(0, FALSE, "")>>
  ELSE RenderBlock(x, 0)

\* a text the parser accepts, with the document it parses to
Content(x) == [parses |-> TRUE, doc |-> x, lines |-> Text(x)]

\* a text the parser rejects (an unterminated flow sequence after a key)
BadContent(lines) == [parses |-> FALSE, doc |-> Undefined, lines |-> lines]

-----------------------------------------------------------------------------
(* The completion provider (src/src/completionProvider.ts).  A position is a
   line of the text (1-based) and the kind of the text before the cursor:
   "empty" (character 0), "blank" (inside the indentation), "partial" (the
   indentation and the first characters of a key that starts with x-),
   "other" (anything else). *)

\* linePrefix.match(/^\s*(x-[\w-]*)?$/)
extensionMatch(prefix) == prefix \in {"empty", "blank", "partial"}

RECURSIVE YamlPathFrom(_, _, _, _)
\* the loop of getYamlPath from line i down to the first line
YamlPathFrom(lines, i, currentIndentation, path) ==
  IF i < 1 THEN path
  ELSE
    LET line == lines[i]
    IN IF line.void THEN YamlPathFrom(lines, i - 1, currentIndentation, path)
       ELSE IF line.ind <= currentIndentation /\ line.key # ""
         THEN YamlPathFrom(lines, i - 1, line.ind,
                           IF \E n \in 1..Len(path) : path[n] = line.key THEN path
                           ELSE <<line.key>> \o path)
         ELSE YamlPathFrom(lines, i - 1, currentIndentation, path)

getYamlPath(lines, l) == YamlPathFrom(lines, l, lines[l].ind, <<>>)

Includes(path, key) == \E n \in 1..Len(path) : path[n] = key

\* const httpMethods = [...]; yamlPath.some(part => httpMethods.includes(part.toLowerCase()))
isInOperationContext(yamlPath) ==
  \E n \in 1..Len(yamlPath) :
    yamlPath[n] \in {"get", "post", "put", "delete", "options", "head", "patch", "trace"}

\* the location, or "none" for null
determineExtensionLocation(c, l) ==
  IF ~Parse(c).ok THEN "none"
  ELSE LET yamlPath == getYamlPath(c.lines, l)
       IN IF Len(yamlPath) = 0 THEN "root"
          ELSE IF Includes(yamlPath, "requestBody") THEN "requestBody"
          ELSE IF Includes(yamlPath, "parameters") THEN "parameters"
          ELSE IF Includes(yamlPath, "servers") THEN "servers"
          ELSE IF Includes(yamlPath, "tags") THEN "tags"
          ELSE IF Includes(yamlPath, "paths") /\ ~isInOperationContext(yamlPath) THEN "root"
          ELSE "root"

\* the snippet, kept by its shape
createSnippet(extension) ==
  IF extension.type \in DeclaredTypes THEN extension.type ELSE ""

\* one vscode.CompletionItem
CompletionItem(extension, prefix) ==
  [label |-> extension.name,
   detail |-> <<extension.type, extension.in>>,
   insertText |-> createSnippet(extension),
   range |-> prefix = "partial",
   sortText |-> <<IF extension.required # "false" THEN "0" ELSE "1", extension.name>>]

Items(list) == [status |-> "returned", list |-> list]

provideCompletionItems(extensions, c, pos) ==
  IF ~extensionMatch(pos.prefix) THEN Items(<<>>)
  ELSE
    LET currentLocation == determineExtensionLocation(c, pos.line)
    IN IF currentLocation = "none" THEN Items(<<>>)
       ELSE LET InLocation(extension) == extension.in = currentLocation
                relevantExtensions == SelectSeq(extensions, InLocation)
            IN Items([n \in 1..Len(relevantExtensions) |->
                        CompletionItem(relevantExtensions[n], pos.prefix)])

-----------------------------------------------------------------------------
(* Inputs: the documents and the rule lists the calls are made with *)

SeqsUpTo(S, n) == UNION {[1..k -> S] : k \in 0..n}

OpenApiEntry == E("openapi", Str("3.1.0"))

UrlEntry == E("url", Str("s"))

NameEntry == E("name", Str("s"))

\* the root either lacks the extension field or holds it with a value of vs
RootFieldOptions(vs) == {<<>>} \cup {<<E("x-a", v)>> : v \in vs}

FieldValues ==
  {Str("s"), Str(""), Num("1"), Bool("true"), Null, Obj(<<>>), Arr(<<>>),
   Obj(<<E("dataKey", Num("1"))>>), Obj(<<E("dataKey", Str("s"))>>)}

RootDocuments ==
  {Obj(<<OpenApiEntry>> \o f) : f \in RootFieldOptions(FieldValues)}
  \cup {Null, Str("s"), Num("1"), Arr(<<>>),
        Obj(<<OpenApiEntry, E("foo", Str("s"))>>),
        Obj(<<OpenApiEntry, E("parameters", Arr(<<Obj(<<NameEntry>>)>>))>>)}

ServerEntries ==
  {Null, Str(""), Num("0"), Bool("false"), Str("s"), Obj(<<UrlEntry>>)}
  \cup {Obj(<<UrlEntry, E("x-a", v)>>) : v \in {Str("s"), Num("1"), Null}}

ServersDocuments ==
  {Obj(<<OpenApiEntry>> \o f \o <<E("servers", sv)>>) :
     f \in RootFieldOptions({Num("1"), Str("s")}),
     sv \in {Null, Str("s"), Obj(<<UrlEntry>>)}
            \cup {Arr(xs) : xs \in SeqsUpTo(ServerEntries, MaxEntries)}}

TagEntries ==
  {Null, Str(""), Obj(<<NameEntry>>), Obj(<<NameEntry, E("x-a", Num("1"))>>)}

TagsDocuments ==
  {Obj(<<OpenApiEntry>> \o f \o <<E("tags", tv)>>) :
     f \in RootFieldOptions({Num("1")}),
     tv \in {Str("s")} \cup {Arr(xs) : xs \in SeqsUpTo(TagEntries, MaxEntries)}}

ParameterEntries ==
  {Null, Str(""), Obj(<<NameEntry>>),
   Obj(<<NameEntry, E("x-a", Num("1"))>>), Obj(<<NameEntry, E("x-a", Str("s"))>>)}

ParametersValues ==
  {Null, Str("s"), Obj(<<NameEntry>>)}
  \cup {Arr(xs) : xs \in SeqsUpTo(ParameterEntries, MaxEntries)}

SomeParametersValues ==
  {Str("s"),
   Arr(<<Obj(<<NameEntry>>)>>),
   Arr(<<Obj(<<NameEntry, E("x-a", Num("1"))>>)>>),
   Arr(<<Obj(<<NameEntry>>), Obj(<<NameEntry, E("x-a", Str("s"))>>)>>)}

RequestBodies ==
  {Null, Str("s"), Obj(<<E("content", Obj(<<>>))>>),
   Obj(<<E("content", Obj(<<>>)), E("x-a", Num("1"))>>),
   Obj(<<E("content", Obj(<<>>)), E("x-a", Str("s"))>>)}

OperationValues ==
  {Null, Str("s"), Obj(<<E("summary", Str("s"))>>)}
  \cup {Obj(<<E("parameters", pv)>>) : pv \in SomeParametersValues}
  \cup {Obj(<<E("requestBody", rb)>>) : rb \in RequestBodies}

SomeOperationValues ==
  {Obj(<<E("summary", Str("s"))>>),
   Obj(<<E("parameters", Arr(<<Obj(<<NameEntry>>)>>))>>),
   Obj(<<E("requestBody", Obj(<<E("content", Obj(<<>>))>>))>>)}

Methods == {ParameterOperations[j] : j \in 1..Len(ParameterOperations)}

PathItems ==
  {Null, Str(""), Str("s"), Num("1"), Obj(<<>>)}
  \cup {Obj(<<E("parameters", pv)>>) : pv \in ParametersValues}
  \cup {Obj(<<E(m, ov)>>) : m \in Methods, ov \in OperationValues}
  \cup {Obj(<<E("parameters", Arr(<<Obj(<<NameEntry>>)>>)), E(ms[1], o1), E(ms[2], o2)>>) :
          ms \in {<<"post", "get">>, <<"get", "put">>},
          o1 \in SomeOperationValues, o2 \in SomeOperationValues}
  \cup {Obj(<<E("connect", Obj(<<E("parameters", Arr(<<Obj(<<NameEntry>>)>>))>>))>>),
        Obj(<<E("servers", Arr(<<Obj(<<UrlEntry>>)>>))>>)}

SomePathItems ==
  {Null,
   Obj(<<E("parameters", Arr(<<Obj(<<NameEntry>>)>>))>>),
   Obj(<<E("get", Obj(<<E("parameters", Arr(<<Obj(<<NameEntry, E("x-a", Num("1"))>>)>>))>>))>>),
   Obj(<<E("put", Obj(<<E("requestBody", Obj(<<E("content", Obj(<<>>))>>))>>))>>)}

PathsValues ==
  {Null, Str("s"), Num("1"),
   Arr(<<Obj(<<E("parameters", Arr(<<Obj(<<NameEntry>>)>>))>>)>>)}
  \cup {Obj(<<E("/a", pi)>>) : pi \in PathItems}
  \cup {Obj(<<E("/pets/{id}", p1), E("/a", p2)>>) :
          p1 \in SomePathItems, p2 \in SomePathItems}

PathsDocuments ==
  {Obj(<<OpenApiEntry>> \o f \o <<E("paths", pv)>>) :
     f \in RootFieldOptions({Num("1")}), pv \in PathsValues}

\* documents with a key the schema does not allow next to servers and paths
MixedDocuments ==
  {Obj(<<OpenApiEntry, E("foo", Str("s")), E("servers", Arr(<<Obj(<<UrlEntry>>)>>)),
         E("paths", Obj(<<E("/a", pi)>>))>>) :
     pi \in {Obj(<<E("parameters", Arr(<<Obj(<<NameEntry>>)>>)), E("post", o1), E("get", o2)>>) :
               o1 \in SomeOperationValues, o2 \in SomeOperationValues}}

Documents ==
  RootDocuments \cup ServersDocuments \cup TagsDocuments \cup PathsDocuments
  \cup MixedDocuments

BadContents ==
  {BadContent(<<[Line(0, FALSE, "openapi") EXCEPT !.decl = TRUE], Line(0, FALSE, "x-a")>>),
   BadContent(<<Line(0, FALSE, "servers"), Line(2, TRUE, "url"), Line(4, FALSE, "x-a")>>)}

Contents == {Content(d) : d \in Documents} \cup BadContents

\* the declared types of the rules, "integer" standing for any undeclared one
RuleTypes == DeclaredTypes \cup {"integer"}

Rules ==
  {Rule("root", "x-a", ty, "true") : ty \in RuleTypes}
  \cup {Rule(in, "x-a", ty, "true") :
          in \in Locations \ {"root"}, ty \in {"string", "number", "integer"}}
  \cup {Rule(in, "x-a", "number", rq) : in \in Locations, rq \in {"unset", "false"}}
  \cup {Rule("root", "x-b", "string", "true")}
  \cup {ObjectRule(in, "x-a", "true",
                    <<NestedProperty("paginationType", "string", "false"),
                      NestedProperty("dataKey", "string", "true")>>) :
          in \in {"root", "requestBody"}}

FollowingRules ==
  {Rule("root", "x-b", "string", "true"), Rule("servers", "x-a", "number", "true"),
   Rule("parameters", "x-a", "string", "false")}

\* the rule lists: a first rule of Rules, further rules of FollowingRules
RuleLists ==
  {<<>>} \cup {<<r>> \o fs : r \in Rules, fs \in SeqsUpTo(FollowingRules, MaxRules - 1)}

-----------------------------------------------------------------------------
(* The validator as a state machine *)

NoContent == BadContent(<<>>)

\* validateDocument answering from the result of the previous call when the
\* text is the same
ValidateDocumentCached(c) ==
  /\ Len(history) < MaxOps
  /\ content' = c
  /\ result' = IF c = content /\ result.status # "none" THEN result
                ELSE validateDocument(customExtensions, c)
  /\ history' = Append(history, "validateDocument")
  /\ UNCHANGED <<customExtensions, configured>>
  /\ UNCHANGED <<hostVars, locateVars>>

\* validateDocument(c)
ValidateDocument(c) ==
  /\ Len(history) < MaxOps
  /\ content' = c
  /\ result' = validateDocument(customExtensions, c)
  /\ history' = Append(history, "validateDocument")
  /\ UNCHANGED <<customExtensions, configured>>
  /\ UNCHANGED <<hostVars, locateVars>>

\* updateRequiredExtensions keeping the first rule configured before
UpdateRequiredExtensionsMerging(extensions) ==
  /\ Len(history) < MaxOps
  /\ customExtensions' = IF customExtensions = <<>> THEN extensions
                          ELSE <<customExtensions[1]>> \o extensions
  /\ configured' = extensions
  /\ history' = Append(history, "updateRequiredExtensions")
  /\ UNCHANGED <<content, result>>
  /\ UNCHANGED <<hostVars, locateVars>>

\* updateRequiredExtensions(extensions)
UpdateRequiredExtensions(extensions) ==
  /\ Len(history) < MaxOps
  /\ customExtensions' = extensions
  /\ configured' = extensions
  /\ history' = Append(history, "updateRequiredExtensions")
  /\ UNCHANGED <<content, result>>
  /\ UNCHANGED <<hostVars, locateVars>>

\* the texts and rule lists the state machine is driven with
MachineContents ==
  {Content(d) : d \in RootDocuments} \cup BadContents
  \cup {Content(Obj(<<OpenApiEntry>> \o f \o <<E("servers", Arr(xs))>>)) :
          f \in RootFieldOptions({Num("1")}),
          xs \in SeqsUpTo({Null, Obj(<<UrlEntry>>), Obj(<<UrlEntry, E("x-a", Num("1"))>>)}, 1)}

MachineRuleLists ==
  {<<>>} \cup {<<r>> : r \in FollowingRules \cup {Rule("root", "x-a", "number", "unset")}}

\* no completion request made yet
NoPosition == [line |-> 0, prefix |-> "empty"]

NoItems == [status |-> "none", list |-> <<>>]

\* the editor glue right after activate() with the setting `extensions`, no
\* text document open
HostIdle(extensions) ==
  /\ completionExtensions = extensions
  /\ configuration = extensions
  /\ position = NoPosition
  /\ completionItems = NoItems
  /\ textDocuments = [d \in DocumentNames |-> Closed]
  /\ diagnostics = [d \in DocumentNames |-> <<>>]

\* no lookup made yet
Unasked == [line |-> -1, column |-> -1]

LocateIdle == extensionPath = <<>> /\ foundLocation = Unasked

Init ==
  /\ customExtensions \in MachineRuleLists
  /\ content = NoContent
  /\ result = NoResult
  /\ history = <<>>
  /\ configured = customExtensions
  /\ HostIdle(customExtensions)
  /\ LocateIdle

Next ==
  \/ \E c \in MachineContents : ValidateDocument(c)
  \/ \E extensions \in MachineRuleLists : UpdateRequiredExtensions(extensions)

Spec == Init /\ [][Next]_vars

\* one call of validateDocument on a validator constructed with any rule
\* list: the call with the text `content` is pending until `result` is set
InitCall ==
  /\ customExtensions \in RuleLists
  /\ content \in Contents
  /\ result = NoResult
  /\ history = <<>>
  /\ configured = customExtensions
  /\ HostIdle(customExtensions)
  /\ LocateIdle

Call ==
  /\ result = NoResult
  /\ ValidateDocument(content)

NextCall == Call

SpecCall == InitCall /\ [][NextCall]_vars

-----------------------------------------------------------------------------
(* One completion request on a completion provider constructed with any rule
   list, for a text and a cursor position in it *)

\* the text with the empty last line a final line break leaves
WithFinalLineBreak(c) == [c EXCEPT !.lines = Append(@, BlankLine)]

CompletionContents ==
  Contents \cup {WithFinalLineBreak(Content(d)) : d \in Documents}

\* the kinds of text before a cursor on the line
PrefixesOf(line) ==
  {"empty"}
  \cup (IF line.ind > 0 THEN {"blank"} ELSE {})
  \cup (IF ~line.dash /\ line.key \in ExtensionNames THEN {"partial"} ELSE {})
  \cup (IF ~line.void THEN {"other"} ELSE {})

Positions(c) ==
  {[line |-> l, prefix |-> k] : l \in 1..Len(c.lines), k \in {"empty", "blank", "partial", "other"}}
  \ {pos \in [line : 1..Len(c.lines), prefix : {"empty", "blank", "partial", "other"}] :
        pos.prefix \notin PrefixesOf(c.lines[pos.line])}

CompletionRuleLists ==
  {<<>>,
   <<Rule("root", "x-b", "string", "true")>>,
   <<Rule("root", "x-a", "string", "true"), Rule("servers", "x-a", "number", "true"),
     Rule("root", "x-b", "string", "false")>>,
   <<Rule("tags", "x-a", "string", "true"), Rule("parameters", "x-a", "integer", "unset"),
     Rule("requestBody", "x-b", "object", "false")>>}

InitComplete ==
  /\ customExtensions \in CompletionRuleLists
  /\ content \in CompletionContents
  /\ result = NoResult
  /\ history = <<>>
  /\ configured = customExtensions
  /\ HostIdle(customExtensions)
  /\ LocateIdle

\* provideCompletionItems(document, position) on the text `content`
ProvideCompletionItems(pos) ==
  /\ completionItems = NoItems
  /\ position' = pos
  /\ completionItems' = provideCompletionItems(completionExtensions, content, pos)
  /\ UNCHANGED <<customExtensions, content, result, history, configured,
                 completionExtensions, textDocuments, diagnostics, configuration>>
  /\ UNCHANGED locateVars

NextComplete == \E pos \in Positions(content) : ProvideCompletionItems(pos)

SpecComplete == InitComplete /\ [][NextComplete]_vars

-----------------------------------------------------------------------------
(* The editor glue as a state machine: the events activate() subscribes to.
   Linting and autocompletion are both enabled (the defaults). *)

\* the text behind n comment lines
BehindComments(c, n) == [c EXCEPT !.lines = [i \in 1..n |-> CommentLine(0)] \o @]

HostDocuments ==
  {Obj(<<OpenApiEntry>>),
   Obj(<<OpenApiEntry, E("x-a", Str("s"))>>),
   Obj(<<OpenApiEntry, E("x-a", Num("1"))>>),
   Obj(<<OpenApiEntry, E("servers", Arr(<<Obj(<<UrlEntry, E("x-a", Num("1"))>>)>>))>>),
   Obj(<<E("foo", Str("s"))>>)}

HostContents ==
  {Content(d) : d \in HostDocuments}
  \cup {BehindComments(Content(Obj(<<OpenApiEntry>>)), n) : n \in {FirstLines - 1, FirstLines}}
  \cup {BadContent(<<[Line(0, FALSE, "openapi") EXCEPT !.decl = TRUE], Line(0, FALSE, "x-a")>>)}

HostRuleLists ==
  {<<>>,
   <<Rule("root", "x-a", "string", "true")>>,
   <<Rule("servers", "x-a", "number", "true"), Rule("root", "x-b", "string", "false")>>}

InitHost ==
  /\ customExtensions \in HostRuleLists
  /\ content = NoContent
  /\ result = NoResult
  /\ history = <<>>
  /\ configured = customExtensions
  /\ HostIdle(customExtensions)
  /\ LocateIdle

\* the listener validateDocument(document) of the three document events; an
\* exception of the listener leaves the published diagnostics as they were
Listen(event, fileName, c) ==
  /\ Len(history) < MaxOps
  /\ textDocuments' = [textDocuments EXCEPT ![fileName] = c]
  /\ diagnostics' =
       providerValidateDocument(customExtensions, diagnostics, fileName, c).published
  /\ history' = Append(history, event)
  /\ UNCHANGED <<customExtensions, content, result, configured,
                 completionExtensions, position, completionItems, configuration>>
  /\ UNCHANGED locateVars

OnDidOpenTextDocument(fileName, c) ==
  /\ textDocuments[fileName] = Closed
  /\ Listen("onDidOpenTextDocument", fileName, c)

OnDidChangeTextDocument(fileName, c) ==
  /\ textDocuments[fileName] # Closed
  /\ Listen("onDidChangeTextDocument", fileName, c)

OnDidSaveTextDocument(fileName) ==
  /\ textDocuments[fileName] # Closed
  /\ Listen("onDidSaveTextDocument", fileName, textDocuments[fileName])

\* the configuration listener handing the new list to the diagnostics
\* provider only
OnDidChangeConfigurationLintingOnly(newExtensions) ==
  /\ Len(history) < MaxOps
  /\ configuration' = newExtensions
  /\ customExtensions' = newExtensions
  /\ configured' = newExtensions
  /\ diagnostics' =
       providerUpdateRequiredExtensions(newExtensions, diagnostics, textDocuments).published
  /\ history' = Append(history, "onDidChangeConfiguration")
  /\ UNCHANGED <<content, result, completionExtensions, position, completionItems,
                 textDocuments>>
  /\ UNCHANGED locateVars

\* the configuration listener: the setting is read, the diagnostics provider
\* takes it and validates the open documents again, then the completion
\* provider takes it; an exception of the first step skips the second
OnDidChangeConfiguration(newExtensions) ==
  LET provided == providerUpdateRequiredExtensions(newExtensions, diagnostics, textDocuments)
  IN /\ Len(history) < MaxOps
     /\ configuration' = newExtensions
     /\ customExtensions' = newExtensions
     /\ configured' = newExtensions
     /\ diagnostics' = provided.published
     /\ completionExtensions' =
          IF provided.threw THEN completionExtensions ELSE newExtensions
     /\ history' = Append(history, "onDidChangeConfiguration")
     /\ UNCHANGED <<content, result, position, completionItems, textDocuments>>
     /\ UNCHANGED locateVars

NextHost ==
  \/ \E fileName \in DocumentNames, c \in HostContents : OnDidOpenTextDocument(fileName, c)
  \/ \E fileName \in DocumentNames, c \in HostContents : OnDidChangeTextDocument(fileName, c)
  \/ \E fileName \in DocumentNames : OnDidSaveTextDocument(fileName)
  \/ \E newExtensions \in HostRuleLists : OnDidChangeConfiguration(newExtensions)

SpecHost == InitHost /\ [][NextHost]_vars

-----------------------------------------------------------------------------
(* One lookup of the location scan, for a text and a structural path *)

\* documents with sequences below sequence items, and with a path item
\* keyed "a" before the path item keyed "/a"
SequenceDocuments ==
  {Obj(<<OpenApiEntry,
         E("servers", Arr(<<Obj(<<UrlEntry, E("x-a", Arr(<<Str("s"), Str("s")>>))>>),
                            Obj(<<UrlEntry, E("x-b", Str("s"))>>)>>))>>),
   Obj(<<OpenApiEntry,
         E("servers", Arr(<<Obj(<<UrlEntry, E("x-a", Arr(<<Str("s")>>)),
                                  E("x-b", Arr(<<Str("s"), Str("s")>>))>>)>>))>>),
   Obj(<<OpenApiEntry,
         E("paths",
           Obj(<<E("a", Obj(<<E("get", Obj(<<E("parameters",
                   Arr(<<Obj(<<NameEntry, E("x-a", Str("s"))>>)>>))>>))>>)),
                 E("/a", Obj(<<E("get", Obj(<<E("parameters",
                   Arr(<<Obj(<<NameEntry>>)>>))>>))>>))>>))>>)}

LocateDocuments ==
  {d \in Documents : d.t = "object"} \cup SequenceDocuments

RECURSIVE OutdentedFrom(_, _)
\* the text of the root entries from the i-th on, the items of a sequence
\* that is the value of a root key written at column 0, below their key
OutdentedFrom(ents, i) ==
  IF i > Len(ents) THEN <<>>
  ELSE LET e == ents[i]
           below == IF IsInline(e.val) THEN <<>>
                    ELSE RenderBlock(e.val, IF e.val.t = "array" THEN 0 ELSE 2)
       IN <<[Line(0, FALSE, LineKey(e.k)) EXCEPT !.decl = Declares(e)]>> \o below
          \o OutdentedFrom(ents, i + 1)

\* the same document with its top-level sequences written at column 0
Outdented(x) ==
  [parses |-> TRUE, doc |-> x,
   lines |-> IF IsInline(x) THEN Text(x) ELSE OutdentedFrom(x.ents, 1)]

LocateContents ==
  {Content(d) : d \in LocateDocuments} \cup {Outdented(d) : d \in LocateDocuments}

RECURSIVE NodePaths(_)
\* the structural paths of the keys and of the sequence items of x
NodePaths(x) ==
  IF IsInline(x) THEN {}
  ELSE LET es == PropEntries(x)
       IN UNION {{<<es[i].k>>} \cup {<<es[i].k>> \o q : q \in NodePaths(es[i].val)} :
                 i \in 1..Len(es)}

\* the paths asked for: those of the keys and items of the document, and
\* those of an extension field below each of them
LocatePaths(x) ==
  NodePaths(x)
  \cup {q \o <<name>> : q \in NodePaths(x) \cup {<<>>}, name \in ExtensionNames}

InitLocate ==
  /\ customExtensions = <<>>
  /\ content \in LocateContents
  /\ result = NoResult
  /\ history = <<>>
  /\ configured = customExtensions
  /\ HostIdle(customExtensions)
  /\ extensionPath \in LocatePaths(content.doc)
  /\ foundLocation = Unasked

\* findYamlLocation(content, extensionPath)
FindYamlLocation ==
  /\ foundLocation = Unasked
  /\ foundLocation' = findYamlLocation(content.lines, extensionPath)
  /\ UNCHANGED <<customExtensions, content, result, history, configured, extensionPath>>
  /\ UNCHANGED hostVars

NextLocate == FindYamlLocation

SpecLocate == InitLocate /\ [][NextLocate]_vars

-----------------------------------------------------------------------------
(* Vocabulary of the properties: what the rules are meant to target and to
   accept, stated on the document alone *)

Done == result.status # "none"

Returns == result.status = "returned"

Required(r) == r.required # "false"

RuleIndexes == 1..Len(customExtensions)

\* the named field exists directly on the entry
EntryHas(entry, name) == entry.t = "object" /\ name \in KeySet(entry)

\* the declared type accepts the value
Accepts(type, v) ==
  \/ type = "string" /\ v.t = "string"
  \/ type = "number" /\ v.t = "number"
  \/ type = "boolean" /\ v.t = "boolean"
  \/ type = "object" /\ v.t = "object"
  \/ type = "array" /\ v.t = "array"

Target(entry, where) == [entry |-> entry, where |-> where]

\* the entries of a sequence, with the index of each
ItemTargets(x, sect, pathKey, method) ==
  IF x.t = "array"
    THEN [i \in 1..Len(x.items) |->
            Target(x.items[i], Where(sect, pathKey, method, i - 1))]
    ELSE <<>>

EightMethods == <<"get", "post", "put", "delete", "options", "head", "patch", "trace">>

BodyMethods == <<"post", "put", "patch">>

RECURSIVE OperationParameterTargets(_, _, _)
OperationParameterTargets(pathItem, pathKey, j) ==
  IF j > Len(EightMethods) THEN <<>>
  ELSE LET operation == Prop(pathItem, EightMethods[j])
       IN (IF operation.t = "object"
             THEN ItemTargets(Prop(operation, "parameters"), "parameters",
                              pathKey, EightMethods[j])
             ELSE <<>>)
          \o OperationParameterTargets(pathItem, pathKey, j + 1)

RECURSIVE ParameterTargets(_, _)
ParameterTargets(paths, p) ==
  IF p > Len(paths) THEN <<>>
  ELSE (IF paths[p].val.t = "object"
          THEN ItemTargets(Prop(paths[p].val, "parameters"), "parameters",
                           paths[p].k, "")
               \o OperationParameterTargets(paths[p].val, paths[p].k, 1)
          ELSE <<>>)
       \o ParameterTargets(paths, p + 1)

RECURSIVE OperationBodyTargets(_, _, _)
OperationBodyTargets(pathItem, pathKey, j) ==
  IF j > Len(BodyMethods) THEN <<>>
  ELSE LET operation == Prop(pathItem, BodyMethods[j])
           body == IF operation.t = "object" THEN Prop(operation, "requestBody")
                   ELSE Undefined
       IN (IF Truthy(body)
             THEN <<Target(body, Where("requestBody", pathKey, BodyMethods[j], -1))>>
             ELSE <<>>)
          \o OperationBodyTargets(pathItem, pathKey, j + 1)

RECURSIVE BodyTargets(_, _)
BodyTargets(paths, p) ==
  IF p > Len(paths) THEN <<>>
  ELSE (IF paths[p].val.t = "object"
          THEN OperationBodyTargets(paths[p].val, paths[p].k, 1)
          ELSE <<>>)
       \o BodyTargets(paths, p + 1)

\* the entries a rule of location `in` targets in the document, in
\* traversal order
Targets(document, in) ==
  LET paths == IF document.t = "object" THEN Prop(document, "paths") ELSE Undefined
  IN CASE in = "root" -> <<Target(document, Where("root", "", "", -1))>>
       [] in \in {"servers", "tags"} ->
            IF document.t = "object"
              THEN ItemTargets(Prop(document, in), in, "", "")
              ELSE <<>>
       [] in = "parameters" ->
            IF paths.t \in {"object", "array"}
              THEN ParameterTargets(PropEntries(paths), 1)
              ELSE <<>>
       [] in = "requestBody" ->
            IF paths.t \in {"object", "array"}
              THEN BodyTargets(PropEntries(paths), 1)
              ELSE <<>>
       [] OTHER -> <<>>

TargetsOf(r) == Targets(content.doc, r.in)

TargetIndexes(r) == 1..Len(TargetsOf(r))

\* the field value of an entry that has the field
FieldOf(entry, name) == Prop(entry, name)

\* the entry breaks the rule: the field is missing or of another type
Violates(r, entry) ==
  ~EntryHas(entry, r.name) \/ ~Accepts(r.type, FieldOf(entry, r.name))

\* the required rules of the list that share the location and the name of r
SameTarget(r) ==
  {j \in RuleIndexes :
     /\ Required(customExtensions[j])
     /\ customExtensions[j].in = r.in
     /\ customExtensions[j].name = r.name}

\* the extension findings of the result, by kind, name and place
Emitted(kind, name, where) ==
  {k \in 1..Len(result.errors) :
     /\ result.errors[k].message.kind = kind
     /\ result.errors[k].extensionName = name
     /\ result.errors[k].message.where = where}

ExtensionFindings ==
  {k \in 1..Len(result.errors) : result.errors[k].message.kind \in {"missing", "mismatch"}}

\* no required rule of the list is broken by an entry it targets
NoRuleViolation ==
  \A i \in RuleIndexes :
    Required(customExtensions[i]) =>
      \A n \in TargetIndexes(customExtensions[i]) :
        ~Violates(customExtensions[i], TargetsOf(customExtensions[i])[n].entry)

-----------------------------------------------------------------------------
(* Properties *)

\* C1: validateDocument never raises: whatever the text and the configured
\* rules, a call ends with a returned ValidationResult.
C1_NeverRaises == result.status # "raised"

\* C2: for a text the parser rejects, whatever the rules, the result has
\* isValid = false, no warnings and exactly one finding: severity error,
\* extensionName "parse-error", no line, no column; no schema finding and no
\* extension finding.
C2_ParseFailureResult ==
  (Done /\ ~content.parses) =>
    /\ Returns
    /\ result.isValid = FALSE
    /\ result.warnings = <<>>
    /\ Len(result.errors) = 1
    /\ result.errors[1].message.kind = "parse"
    /\ result.errors[1].severity = "error"
    /\ result.errors[1].extensionName = "parse-error"
    /\ result.errors[1].line = NoLocation.line
    /\ result.errors[1].column = NoLocation.column

\* a rejected text that holds the key of a configured required rule
C2_Witness ==
  /\ Returns
  /\ ~content.parses
  /\ \E i \in RuleIndexes :
       /\ Required(customExtensions[i])
       /\ \E n \in 1..Len(content.lines) :
            content.lines[n].key = customExtensions[i].name

\* C3: every returned ValidationResult has isValid = (errors is empty); a
\* parsed document without schema violation and without rule violation
\* yields isValid = true with no errors.
C3_IsValidIffNoErrors ==
  /\ Returns => (result.isValid <=> Len(result.errors) = 0)
  /\ (Done /\ content.parses /\ SchemaCheck(content.doc) = <<>> /\ NoRuleViolation) =>
       (Returns /\ result.isValid /\ result.errors = <<>>)

\* a valid result for a document in which a required rule targets entries
C3_Witness ==
  /\ Returns
  /\ result.isValid
  /\ \E i \in RuleIndexes :
       /\ Required(customExtensions[i])
       /\ customExtensions[i].in # "root"
       /\ TargetsOf(customExtensions[i]) # <<>>

\* the findings of the result about the field `name` at `where`
FindingsAt(name, where) ==
  Emitted("missing", name, where) \cup Emitted("mismatch", name, where)

\* the places of the entries rule r targets
TargetPlaces(r) == {TargetsOf(r)[n].where : n \in TargetIndexes(r)}

\* C4: a rule with required: false is type-checked when its field is
\* present: a targeted entry holding the field with a value of another type
\* gets a type-mismatch finding for that rule.
C4_OptionalRuleTypeChecked ==
  (Returns /\ content.parses) =>
    \A i \in RuleIndexes :
      LET r == customExtensions[i]
      IN ~Required(r) =>
           \A n \in TargetIndexes(r) :
             LET t == TargetsOf(r)[n]
             IN (EntryHas(t.entry, r.name) /\ ~Accepts(r.type, FieldOf(t.entry, r.name))) =>
                  \E k \in Emitted("mismatch", r.name, t.where) :
                    result.errors[k].message.expected = r.type

\* C5: the absence of a rule's field on a targeted entry is reported as a
\* "Missing required custom extension" finding exactly when the rule's
\* `required` is not false (omitted counts as true).
C5_MissingIffRequired ==
  (Returns /\ content.parses) =>
    /\ \A i \in RuleIndexes :
         LET r == customExtensions[i]
         IN Required(r) =>
              \A n \in TargetIndexes(r) :
                LET t == TargetsOf(r)[n]
                IN ~EntryHas(t.entry, r.name) =>
                     Cardinality(Emitted("missing", r.name, t.where))
                       = Cardinality(SameTarget(r))
    /\ \A k \in 1..Len(result.errors) :
         result.errors[k].message.kind = "missing" =>
           \E i \in RuleIndexes :
             /\ Required(customExtensions[i])
             /\ customExtensions[i].name = result.errors[k].extensionName
             /\ customExtensions[i].in = result.errors[k].message.where.sect

\* C6: for a servers, tags, parameters or requestBody rule an entry counts
\* as having the extension only if the field exists directly on that entry,
\* never because it exists at the document root.
C6_PresenceOnEntryOnly ==
  (Done /\ content.parses /\ CanDeref(content.doc)) =>
    \A i \in RuleIndexes :
      LET r == customExtensions[i]
      IN (Required(r) /\ r.in # "root") =>
           \A n \in TargetIndexes(r) :
             LET t == TargetsOf(r)[n]
             IN hasExtension(content.doc, r.name, t.entry).has => EntryHas(t.entry, r.name)

\* the type check as the result shows it: a targeted entry that holds the
\* field gets a mismatch finding of rule r exactly when the declared type
\* does not accept the value
C7_Table(r) ==
  \A n \in TargetIndexes(r) :
    LET t == TargetsOf(r)[n]
    IN EntryHas(t.entry, r.name) =>
         ((\E k \in Emitted("mismatch", r.name, t.where) :
             result.errors[k].message.expected = r.type
             /\ result.errors[k].message.got = TypeOf(FieldOf(t.entry, r.name)))
          <=> ~Accepts(r.type, FieldOf(t.entry, r.name)))

\* a rule of undeclared type has a finding on every entry it targets
C7_NeverSkipped(r) ==
  r.type \notin DeclaredTypes =>
    \A n \in TargetIndexes(r) : FindingsAt(r.name, TargetsOf(r)[n].where) # {}

\* C7: the type check accepts string, number, boolean, object (not null, not
\* an array) and array values for the declared type of that name and no
\* value for any other declared type, so that a required rule of undeclared
\* type yields a finding on every entry it targets.
C7_TypeCheck ==
  (Done /\ content.parses /\ content.doc.t = "object") =>
    \A i \in RuleIndexes :
      LET r == customExtensions[i]
      IN Required(r) =>
           /\ Returns => C7_Table(r)
           /\ (r.type \notin DeclaredTypes /\ TargetsOf(r) # <<>>) =>
                (Returns /\ C7_NeverSkipped(r))

\* one finding per required rule of that location and name the entry breaks,
\* of the kind of the breach, and none where the rule is satisfied
ExactFindings(r, t) ==
  LET has == EntryHas(t.entry, r.name)
  IN /\ Cardinality(Emitted("missing", r.name, t.where))
          = (IF has THEN 0 ELSE Cardinality(SameTarget(r)))
     /\ Cardinality(Emitted("mismatch", r.name, t.where))
          = (IF has
               THEN Cardinality({j \in SameTarget(r) :
                      ~Accepts(customExtensions[j].type, FieldOf(t.entry, r.name))})
               ELSE 0)

\* the findings about rule r lie on entries the rule targets
OnlyOnTargets(r) ==
  \A k \in ExtensionFindings :
    (result.errors[k].extensionName = r.name
       /\ result.errors[k].message.where.sect = r.in) =>
      result.errors[k].message.where \in TargetPlaces(r)

C8_Root(r) == ExactFindings(r, TargetsOf(r)[1]) /\ OnlyOnTargets(r)

\* C8: a required root rule yields exactly one missing finding when
\* document[name] is absent, exactly one mismatch finding when it is present
\* with a value of another type, no finding when it is present with a value
\* of the declared type, never a missing and a mismatch finding together.
C8_RootRuleFindings ==
  (Done /\ content.parses) =>
    \A i \in RuleIndexes :
      LET r == customExtensions[i]
      IN (Required(r) /\ r.in = "root") => (Returns /\ C8_Root(r))

\* one finding on the entry per required rule of that location and name the
\* entry breaks
OneFindingEach(r, t) ==
  Cardinality(FindingsAt(r.name, t.where))
    = Cardinality({j \in SameTarget(r) : Violates(customExtensions[j], t.entry)})

C9_Entries(r) ==
  /\ \A n \in TargetIndexes(r) : OneFindingEach(r, TargetsOf(r)[n])
  /\ OnlyOnTargets(r)

\* C9: a required servers (tags) rule yields exactly one finding, naming the
\* index, for each entry of document.servers (document.tags) that lacks the
\* field or holds it with another type, none for the other entries, and
\* none at all when the section is absent or not a sequence.
C9_ServersTagsFindings ==
  (Done /\ content.parses /\ content.doc.t = "object") =>
    \A i \in RuleIndexes :
      LET r == customExtensions[i]
      IN (Required(r) /\ r.in \in {"servers", "tags"}) => (Returns /\ C9_Entries(r))

\* paths is an object of path items that are objects, whose operations are
\* objects and whose `parameters` are sequences
PathsWellShaped ==
  LET paths == Prop(content.doc, "paths")
      SeqOrAbsent(x) == Prop(x, "parameters").t \in {"undefined", "array"}
  IN /\ paths.t = "object"
     /\ \A p \in 1..Len(paths.ents) :
          LET pathItem == paths.ents[p].val
          IN /\ pathItem.t = "object"
             /\ SeqOrAbsent(pathItem)
             /\ \A j \in 1..Len(EightMethods) :
                  LET operation == Prop(pathItem, EightMethods[j])
                  IN \/ operation.t = "undefined"
                     \/ (operation.t = "object" /\ SeqOrAbsent(operation))

\* C10: a required parameters rule is checked against the entries of every
\* path item's parameters and of the parameters of every operation under
\* the eight method keys, against no other entry, with exactly one finding
\* per entry that breaks the rule.
C10_ParametersFindings ==
  (Done /\ content.parses /\ content.doc.t = "object" /\ PathsWellShaped) =>
    \A i \in RuleIndexes :
      LET r == customExtensions[i]
      IN (Required(r) /\ r.in = "parameters") => (Returns /\ C9_Entries(r))

\* C11: a required requestBody rule is checked against operation.requestBody
\* under the three methods post, put and patch of every path item: exactly
\* one finding for each such requestBody that breaks the rule, none for an
\* operation without requestBody, none for a requestBody under another
\* method.
C11_RequestBodyFindings ==
  (Done /\ content.parses /\ content.doc.t = "object") =>
    \A i \in RuleIndexes :
      LET r == customExtensions[i]
      IN (Required(r) /\ r.in = "requestBody") =>
           /\ Returns => C9_Entries(r)
           /\ (\E n \in TargetIndexes(r) : Violates(r, TargetsOf(r)[n].entry)) =>
                (Returns /\ C9_Entries(r))

RECURSIVE BreachesOfRule(_, _)
\* the places where rule r is broken, in traversal order, from the n-th
\* targeted entry on
BreachesOfRule(r, n) ==
  IF n > Len(TargetsOf(r)) THEN <<>>
  ELSE LET t == TargetsOf(r)[n]
       IN (IF Violates(r, t.entry)
             THEN <<[extensionName |-> r.name, where |-> t.where]>>
             ELSE <<>>)
          \o BreachesOfRule(r, n + 1)

RECURSIVE BreachesFrom(_)
\* the breaches of the required rules from the i-th on, in declaration order
BreachesFrom(i) ==
  IF i > Len(customExtensions) THEN <<>>
  ELSE (IF Required(customExtensions[i]) THEN BreachesOfRule(customExtensions[i], 1)
        ELSE <<>>)
       \o BreachesFrom(i + 1)

SchemaFindingIndexes == {k \in 1..Len(result.errors) : result.errors[k].message.kind = "schema"}

\* C12: in the errors of a result that is not a parse failure, the schema
\* findings come first, then the extension findings rule by rule in
\* declaration order, and for one rule in traversal order (servers and tags
\* by index; paths by key, path-level parameters before the operations get,
\* post, put, delete, options, head, patch, trace, each by index); the
\* extension findings are there also when schema findings are.
C12_FindingsOrder ==
  (Returns /\ content.parses) =>
    LET s == Cardinality(SchemaFindingIndexes)
        breaches == BreachesFrom(1)
    IN /\ SchemaFindingIndexes = 1..s
       /\ ExtensionFindings = (s + 1)..Len(result.errors)
       /\ Len(result.errors) = s + Len(breaches)
       /\ \A k \in 1..Len(breaches) :
            /\ result.errors[s + k].extensionName = breaches[k].extensionName
            /\ result.errors[s + k].message.where = breaches[k].where

\* schema findings followed by the findings of two rules, the first of them
\* with findings on a path-level parameter and on an operation's parameter
C12_Witness ==
  /\ Returns
  /\ content.parses
  /\ SchemaFindingIndexes # {}
  /\ Len(customExtensions) = 2
  /\ Len(BreachesOfRule(customExtensions[1], 1)) >= 2
  /\ customExtensions[1].in = "parameters"
  /\ Required(customExtensions[2])
  /\ BreachesOfRule(customExtensions[2], 1) # <<>>
  /\ \E k \in ExtensionFindings : result.errors[k].message.where.method = ""
  /\ \E k \in ExtensionFindings : result.errors[k].message.where.method # ""

\* the step is a call of the named operation
Called(name) == history' # history /\ history'[Len(history')] = name

\* C13: after any sequence of validateDocument and updateRequiredExtensions
\* calls, a call of validateDocument on a text ends as the call on a fresh
\* validator constructed with the currently configured rules does, and it
\* leaves the configured rules unchanged.
C13_HistoryIndependent ==
  [][Called("validateDocument") =>
       /\ result' = validateDocument(configured, content')
       /\ customExtensions' = customExtensions]_vars

\* a call with findings, made after an earlier call and a change of the rules
C13_Witness ==
  /\ history = <<"validateDocument", "updateRequiredExtensions", "validateDocument">>
  /\ Returns
  /\ ExtensionFindings # {}
  /\ result = validateDocument(configured, content)

\* the rule list without its i-th rule
WithoutRule(extensions, i) ==
  SubSeq(extensions, 1, i - 1) \o SubSeq(extensions, i + 1, Len(extensions))

\* the rules appended to the configured list
AppendedRules == FollowingRules \cup {Rule("root", "x-a", "string", "true")}

\* b holds the findings of a in the same order, followed by findings of rule r
ExtendsBy(a, b, r) ==
  /\ b.status = "returned"
  /\ Len(b.errors) >= Len(a.errors)
  /\ SubSeq(b.errors, 1, Len(a.errors)) = a.errors
  /\ \A k \in (Len(a.errors) + 1)..Len(b.errors) :
       /\ b.errors[k].extensionName = r.name
       /\ b.errors[k].message.where.sect = r.in

\* C14: validating a text under the rule list with a rule r appended gives
\* all findings of validating it under the list, in the same order, and
\* besides them only findings of r; validating under the list with a rule
\* removed gives no finding the list did not give.
C14_Monotone ==
  (Done /\ content.parses) =>
    /\ Returns =>
         \A r \in AppendedRules :
           ExtendsBy(result, validateDocument(Append(customExtensions, r), content), r)
    /\ \A i \in RuleIndexes :
         LET b == validateDocument(WithoutRule(customExtensions, i), content)
         IN \A k \in 1..Len(b.errors) :
              \E l \in 1..Len(result.errors) : result.errors[l] = b.errors[k]

\* the last operation called
LastCalled == IF history = <<>> THEN "none" ELSE history[Len(history)]

\* C15: updateRequiredExtensions(R) replaces the active rules wholesale: the
\* active rules are exactly the rules last handed over, and the outcome of a
\* validateDocument call is the outcome under exactly these rules, never
\* under a mixture of two rule lists.
C15_RulesReplaced ==
  /\ customExtensions = configured
  /\ LastCalled = "validateDocument" => result = validateDocument(configured, content)

\* a call made after two replacements of the rules, reporting on the rule
\* last configured only
C15_Witness ==
  /\ history = <<"updateRequiredExtensions", "updateRequiredExtensions", "validateDocument">>
  /\ configured = <<Rule("root", "x-b", "string", "true")>>
  /\ Returns
  /\ ExtensionFindings # {}
  /\ \A k \in ExtensionFindings : result.errors[k].extensionName = "x-b"
  /\ ~EntryHas(content.doc, "x-a")

RECURSIVE KeyPaths(_)
\* the structural paths of the keys of x: the keys of an object and, below
\* each key or sequence index, the paths of the keys of its value
KeyPaths(x) ==
  IF IsInline(x) THEN {}
  ELSE LET es == PropEntries(x)
       IN UNION {(IF x.t = "object" THEN {<<es[i].k>>} ELSE {})
                   \cup {<<es[i].k>> \o q : q \in KeyPaths(es[i].val)} :
                 i \in 1..Len(es)}

\* the number of lines the text of x takes below the line of its key
LinesBelow(x) == IF IsInline(x) THEN 0 ELSE Len(RenderBlock(x, 0))

RECURSIVE LinesBefore(_, _)
\* the number of lines of the first n entries of a block
LinesBefore(x, n) ==
  IF n = 0 THEN 0
  ELSE LinesBefore(x, n - 1)
       + (IF x.t = "object" THEN 1 + LinesBelow(x.ents[n].val)
          ELSE IF IsInline(x.items[n]) THEN 1 ELSE LinesBelow(x.items[n]))

RECURSIVE LineOfKey(_, _, _)
\* the line of the key the path designates in the text of x, the text of x
\* starting at line `first`
LineOfKey(x, path, first) ==
  LET es == PropEntries(x)
      i == CHOOSE n \in 1..Len(es) : es[n].k = Head(path)
      here == first + LinesBefore(x, i - 1)
  IN IF Len(path) = 1 THEN here
     ELSE LineOfKey(es[i].val, Tail(path), IF x.t = "object" THEN here + 1 ELSE here)

\* C16: for a structural path that designates a key present in the text at
\* line L, findYamlLocation returns line L, whatever equally named keys
\* occur elsewhere in the text.
C16_LocatesPresentKey ==
  (Done /\ content.parses) =>
    \A path \in KeyPaths(content.doc) :
      findYamlLocation(content.lines, path).line = LineOfKey(content.doc, path, 1)

\* C17: the path of a field an entry lacks does not exist in the text, so
\* findYamlLocation returns none for it and every "missing extension"
\* finding carries no line and no column.
C17_MissingHasNoLocation ==
  (Returns /\ content.parses) =>
    \A k \in 1..Len(result.errors) :
      result.errors[k].message.kind = "missing" =>
        /\ result.errors[k].line = NoLocation.line
        /\ result.errors[k].column = NoLocation.column

\* C18: every violation of the schema check is reported: the result holds
\* exactly one finding per violation, in the order of the check, each with
\* severity error, extensionName "schema-validation" and the path of the
\* violation.
C18_EverySchemaViolation ==
  (Done /\ content.parses) =>
    LET violations == SchemaCheck(content.doc)
    IN /\ Returns
       /\ SchemaFindingIndexes = 1..Len(violations)
       /\ \A k \in 1..Len(violations) :
            /\ result.errors[k].severity = "error"
            /\ result.errors[k].extensionName = "schema-validation"
            /\ result.errors[k].message.at = violations[k].instancePath

\* the column of the key on line l of the text
ColumnOfKey(l) == content.lines[l].ind + (IF content.lines[l].dash THEN 3 ELSE 1)

\* C19: the finding of a schema violation about a disallowed property
\* carries the line and the column of that property's own key, also for a
\* property at the document root.
C19_DisallowedPropertyLocation ==
  (Returns /\ content.parses) =>
    \A k \in SchemaFindingIndexes :
      LET f == result.errors[k]
      IN f.message.subject # "undefined" =>
           LET l == LineOfKey(content.doc, f.message.at \o <<f.message.subject>>, 1)
           IN f.line = l /\ f.column = ColumnOfKey(l)

\* the value breaks a nested declaration of rule r: a nested property
\* declared required is missing, or a nested property is held with a value
\* of another type
BreaksNested(r, value) ==
  \E n \in 1..Len(r.properties) :
    LET p == r.properties[n]
    IN \/ p.required # "false" /\ ~EntryHas(value, p.name)
       \/ EntryHas(value, p.name) /\ ~Accepts(p.type, FieldOf(value, p.name))

\* C20: rules are applied recursively: for a required object-typed rule with
\* nested `properties`, a targeted entry whose field is an object that lacks
\* a nested property declared required, or holds a nested property with a
\* value of another type, gets a finding.
C20_NestedProperties ==
  (Returns /\ content.parses) =>
    \A i \in RuleIndexes :
      LET r == customExtensions[i]
      IN (Required(r) /\ r.type = "object" /\ r.properties # <<>>) =>
           \A n \in TargetIndexes(r) :
             LET t == TargetsOf(r)[n]
             IN (/\ EntryHas(t.entry, r.name)
                 /\ Accepts("object", FieldOf(t.entry, r.name))
                 /\ BreaksNested(r, FieldOf(t.entry, r.name))) =>
                  FindingsAt(r.name, t.where) # {}

Answered == completionItems.status = "returned"

\* the configured extensions of the location, in their order
ExtensionsOf(in) ==
  LET InLocation(extension) == extension.in = in
  IN SelectSeq(completionExtensions, InLocation)

\* the completion answer offers exactly the extensions of the location
Offers(in) ==
  /\ Len(completionItems.list) = Len(ExtensionsOf(in))
  /\ \A n \in 1..Len(completionItems.list) :
       completionItems.list[n].label = ExtensionsOf(in)[n].name

\* the cursor is on an unindented line that is no sequence item, after
\* nothing or after a partial x- name
AtRootLevel ==
  /\ position.line >= 1
  /\ content.lines[position.line].ind = 0
  /\ ~content.lines[position.line].dash
  /\ position.prefix \in {"empty", "partial"}

\* C21: with the cursor on an unindented line of a parseable document, after
\* nothing or after a partial x- name, the completion provider offers
\* exactly the configured extensions whose `in` is root, whatever top-level
\* sections precede the cursor line.
C21_RootCompletion ==
  (Answered /\ content.parses /\ AtRootLevel) => Offers("root")

\* the last event handled
LastEvent == IF history = <<>> THEN "" ELSE history[Len(history)]

OpenDocuments == {d \in DocumentNames : textDocuments[d] # Closed}

\* the diagnostics of validating the current text of the document under the
\* validator's rule list
Recomputed(d) ==
  updateDiagnostics(textDocuments[d],
                    legacyValidateDocument(customExtensions, textDocuments[d]))

BothHold ==
  /\ customExtensions = configuration
  /\ completionExtensions = configuration

\* C22 as worded: after a configuration-change event the validator and the
\* completion provider both hold the configured rule list, and the
\* diagnostics of every open document recognised as OpenAPI are those of
\* its text under that list.
C22_EveryRecognisedDocument ==
  LastEvent = "onDidChangeConfiguration" =>
    /\ BothHold
    /\ \A d \in OpenDocuments :
         isOpenAPIFile(textDocuments[d]) => diagnostics[d] = Recomputed(d)

\* C22, amended: after a configuration-change event the validator and the
\* completion provider both hold the configured rule list, and the
\* diagnostics of every open document recognised as OpenAPI whose file name
\* does not end in ".git" are those of its text under that list; for a file
\* name ending in ".git" nothing is ever published.
C22_ConfigurationChange ==
  /\ LastEvent = "onDidChangeConfiguration" =>
       /\ BothHold
       /\ \A d \in OpenDocuments :
            (isOpenAPIFile(textDocuments[d]) /\ ~EndsWithGit(d)) =>
              diagnostics[d] = Recomputed(d)
  /\ \A d \in DocumentNames : EndsWithGit(d) => diagnostics[d] = <<>>

\* a change of the setting to another list, with a recognised document open
\* whose diagnostics it changed
C22_Witness ==
  /\ Len(history) >= 2
  /\ LastEvent = "onDidChangeConfiguration"
  /\ history[Len(history) - 1] = "onDidOpenTextDocument"
  /\ configuration # <<>>
  /\ \E d \in OpenDocuments :
       /\ ~EndsWithGit(d)
       /\ isOpenAPIFile(textDocuments[d])
       /\ diagnostics[d] # <<>>
       /\ diagnostics[d] #
            updateDiagnostics(textDocuments[d],
                              legacyValidateDocument(<<>>, textDocuments[d]))

Located == foundLocation # Unasked

Indexes == {IndexStr(i) : i \in 0..9}

\* every key of the path is matched by the key pattern and holds no "/"
IdentifierPath(path) ==
  \A n \in 1..Len(path) : path[n] \notin NonIdentifierKeys

\* C23: a path ending in the index i of a sequence resolves to the line of
\* the i-th item of that sequence, whatever items of nested or of earlier
\* sibling sequences precede it, also when the items are written at
\* column 0.
C23_IndexOfItsSequence ==
  (/\ Located
   /\ extensionPath \in NodePaths(content.doc)
   /\ IdentifierPath(extensionPath)
   /\ extensionPath[Len(extensionPath)] \in Indexes) =>
    foundLocation.line = LineOfKey(content.doc, extensionPath, 1)

\* the lines with the line v put before line p (after the last line when
\* p is Len(lines) + 1)
InsertLine(lines, p, v) ==
  SubSeq(lines, 1, p - 1) \o <<v>> \o SubSeq(lines, p, Len(lines))

\* the blank line, and comment lines at the indentations of the texts
VoidLines == {BlankLine} \cup {CommentLine(ind) : ind \in {0, 2, 4}}

\* the location moved down by a line put before line p
Shifted(loc, p) ==
  IF loc = NoLocation \/ p > loc.line THEN loc
  ELSE [loc EXCEPT !.line = @ + 1]

\* C24: putting a blank line or a comment line anywhere into the text does
\* not change what a path resolves to: the same key, its line number
\* shifted by the line put above it, or none as before.
C24_VoidLinesSkipped ==
  Located =>
    \A p \in 1..(Len(content.lines) + 1), v \in VoidLines :
      findYamlLocation(InsertLine(content.lines, p, v), extensionPath)
        = Shifted(foundLocation, p)

\* the path is the lookup path of a Parameters or RequestBody finding:
\* [paths, pathKey, (method,) parameters, index, name] or
\* [paths, pathKey, method, requestBody, name]
SectionLookupPath(path) ==
  /\ Len(path) >= 5
  /\ path[1] = "paths"
  /\ path[Len(path)] \in ExtensionNames
  /\ \/ path[Len(path) - 2] = "parameters" /\ path[Len(path) - 1] \in Indexes
     \/ Len(path) = 5 /\ path[4] = "requestBody"

\* C25: the scan of a Parameters or RequestBody lookup walks the segments
\* of the structural path, the path item's key being one single segment,
\* also when it holds "/" characters.
C25_PathKeyOneSegment ==
  (Located /\ SectionLookupPath(extensionPath)) =>
    /\ Len(SplitPath(extensionPath)) = Len(extensionPath)
    /\ SplitPath(extensionPath)[2] = extensionPath[2]

\* C26: a structural path with a key segment outside letters, digits,
\* underscore and hyphen resolves to none.
C26_NonIdentifierKeyUnlocated ==
  (Located /\ ~IdentifierPath(extensionPath)) => foundLocation = NoLocation

\* C27: the column returned for a path is the 1-based column of the first
\* character of the matched key, also on a line "- key: value"; for a path
\* ending in an index it is the column of the first character after the
\* "- " marker.
C27_ColumnOfKey ==
  (Located /\ foundLocation # NoLocation) =>
    foundLocation.column = ColumnOfKey(foundLocation.line)

RootRulesOnly == \A i \in RuleIndexes : customExtensions[i].in = "root"

\* C28: with a rule list whose rules all have location root, the legacy
\* validator and the location-aware validator end alike on every text:
\* they return the same ValidationResult (same findings, same order, same
\* line and column), or both raise.
C28_VariantsAgreeOnRoot ==
  (Done /\ RootRulesOnly) =>
    result = legacyValidateDocument(customExtensions, content)

\* two root rules, one missing and one held with another type, on a
\* document that also breaks the schema
C28_Witness ==
  /\ Returns
  /\ RootRulesOnly
  /\ Len(customExtensions) = 2
  /\ SchemaFindingIndexes # {}
  /\ \E k \in ExtensionFindings : result.errors[k].message.kind = "missing"
  /\ \E k \in ExtensionFindings : result.errors[k].message.kind = "mismatch"
  /\ result = legacyValidateDocument(customExtensions, content)

DocumentEvents ==
  {"onDidOpenTextDocument", "onDidChangeTextDocument", "onDidSaveTextDocument"}

\* C29: after an open, change or save event the diagnostics published for
\* an open document (file names ending in ".git" aside) are those of its
\* current text under the current rule list, one per finding, and there
\* are none when the text is not recognised as OpenAPI.
C29_DiagnosticsOfCurrentText ==
  LastEvent \in DocumentEvents =>
    \A d \in OpenDocuments :
      ~EndsWithGit(d) =>
        diagnostics[d] = IF isOpenAPIFile(textDocuments[d]) THEN Recomputed(d)
                         ELSE <<>>

=============================================================================
